---------------------------- MODULE Spec2Model ----------------------------
(***************************************************************************)
(* A model of ldapsync.py: ADParser (bind with failover, paged search,     *)
(* unbind, normalisation of the raw entries) and the caller get_data /     *)
(* __main__ that submits the export.                                       *)
(*                                                                         *)
(* Python values.  None is the empty tuple <<>> and a value x that may be  *)
(* None is <<x>>.  A string is a sequence of tokens; a token is a TLA+     *)
(* string standing for a run of characters that the code never looks       *)
(* inside of ("smtp:", "x400:", "'desc': " written DESC, "@", " ", single  *)
(* letters).  Substring tests and split() of the code are on token         *)
(* boundaries here, which is exact for the strings the model draws.        *)
(***************************************************************************)
EXTENDS Integers, Sequences, FiniteSets, TLC

(***************************************************************************)
(* Bounds of the model.                                                    *)
(***************************************************************************)
MaxServers == 2
MaxLimit == 3
MaxPages == 3
MaxAliasLen == 3
MaxHeader == 2

\* ADParser.page_size, the class default
page_size_default == 500

None == <<>>
Some(x) == <<x>>
\* Python truthiness of an optional integer: None and 0 are false
Truthy(v) == v # None /\ v[1] # 0

(***************************************************************************)
(* Strings                                                                 *)
(***************************************************************************)
DESC == "'desc': "

\* str.lower() on one token
LowerTok(t) ==
    CASE t = "A" -> "a"
      [] t = "B" -> "b"
      [] t = "C" -> "c"
      [] t = "SMTP:" -> "smtp:"
      [] t = "Smtp:" -> "smtp:"
      [] t = "X400:" -> "x400:"
      [] OTHER -> t

\* str.lower()
Lower(s) == [i \in 1..Len(s) |-> LowerTok(s[i])]

\* `tok in s`
Contains(s, tok) == \E i \in 1..Len(s) : s[i] = tok

\* index of the first occurrence of tok in s, 0 when there is none
RECURSIVE FindFrom(_, _, _)
FindFrom(s, tok, i) ==
    IF i > Len(s) THEN 0
    ELSE IF s[i] = tok THEN i
    ELSE FindFrom(s, tok, i + 1)

\* s.split(tok): the list of the pieces between the occurrences of tok
RECURSIVE Split(_, _)
Split(s, tok) ==
    LET k == FindFrom(s, tok, 1)
    IN  IF k = 0 THEN <<s>>
        ELSE <<SubSeq(s, 1, k - 1)>> \o Split(SubSeq(s, k + 1, Len(s)), tok)

\* s.strip(c) for a one-character set c
RECURSIVE LStrip(_, _)
LStrip(s, c) ==
    IF s # <<>> /\ Head(s) = c THEN LStrip(Tail(s), c) ELSE s

RECURSIVE RStrip(_, _)
RStrip(s, c) ==
    IF s # <<>> /\ s[Len(s)] = c THEN RStrip(SubSeq(s, 1, Len(s) - 1), c) ELSE s

Strip(s, c) == RStrip(LStrip(s, c), c)

(***************************************************************************)
(* The texts str(exc) of the ldap.LDAPError the directory library raises.  *)
(***************************************************************************)
\* {'desc': "Can't contact LDAP server"}
PayloadDesc == <<"{", DESC, "\"", "Can't contact LDAP server", "\"", "}">>
\* an LDAPError raised with no dictionary: no 'desc' marker in its text
PayloadNoDesc == <<"LDAP connection invalid">>
\* {'desc': 'Invalid credentials', 'info': "... 'desc': ..."}
PayloadTwoDesc == <<"{", DESC, "'", "Invalid credentials", "'", ",", "'info': ",
                    "'", "see", DESC, "'", "}">>

Payloads == {PayloadDesc, PayloadNoDesc, PayloadTwoDesc}


(***************************************************************************)
(* ADParser._set_error_from_ldap_exc                                       *)
(***************************************************************************)
\* `_, text = str(exc).split("'desc': ")` raises ValueError unless the split
\* gives exactly two pieces
SetErrorRaises(payload) == Len(Split(payload, DESC)) # 2

\* the value assigned to self.error when the unpacking succeeds
SetErrorText(payload) ==
    Strip(Strip(Strip(Split(payload, DESC)[2], "}"), "\""), "'")

(***************************************************************************)
(* Raw entries: (dn, attrs) pairs of result3.  A search reference has a     *)
(* list in place of the attribute dictionary (is_dict = FALSE).            *)
(***************************************************************************)
Range(s) == {s[i] : i \in 1..Len(s)}

\* dict.get(key, default)
Get(attrs, key, default) == IF key \in DOMAIN attrs THEN attrs[key] ELSE default

EntryRef == [is_dict |-> FALSE, attrs |-> <<>>]
EntryAlice ==
    [is_dict |-> TRUE,
     attrs |-> ("mail" :> << <<"A", "@", "c">> >>) @@
               ("proxyAddresses" :> << <<"SMTP:", "A", "@", "c">>,
                                       <<"smtp:", "b", "@", "c">>,
                                       <<"x400:", "b">>,
                                       <<"a">> >>)]
EntryBob ==
    [is_dict |-> TRUE,
     attrs |-> ("mail" :> << <<"b">>, <<"B", "@", "c">> >>) @@
               ("proxyAddresses" :> << <<"b", " ", "c">>, <<"B">>, <<"c">> >>)]
EntryNoMail ==
    [is_dict |-> TRUE,
     attrs |-> ("proxyAddresses" :> << <<"smtp:", "c", "@", "c">> >>)]
EntryEmptyMail ==
    [is_dict |-> TRUE,
     attrs |-> ("mail" :> << <<>> >>) @@
               ("proxyAddresses" :> << <<"c">> >>)]

\* the result lists a search response may carry
ResultPages ==
    { <<EntryAlice, EntryBob>>,
      <<EntryRef, EntryNoMail, EntryAlice>>,
      <<EntryEmptyMail>> }

(***************************************************************************)
(* The normaliser: prepare_email, prepare_aliases, _process_row            *)
(***************************************************************************)
\* ADParser.prepare_email
prepare_email(val) == Lower(val[1])

\* ADParser.prepare_aliases
RECURSIVE prepare_aliases(_)
prepare_aliases(val) ==
    IF val = <<>> THEN <<>>
    ELSE LET addr == Lower(Head(val))
             rest == prepare_aliases(Tail(val))
         IN  IF Contains(addr, "x400:") THEN rest
             ELSE IF Contains(addr, " ") THEN rest
             ELSE IF Contains(addr, "smtp:")
                  THEN <<Split(addr, "smtp:")[2]>> \o rest
             ELSE <<addr>> \o rest

\* AbstractParser._process_row on the row parse builds: both values are
\* lists, so neither is stripped, and both have a prepare_<key> method
AbstractProcessRow(row) ==
    [email |-> prepare_email(row.email),
     aliases |-> prepare_aliases(row.aliases)]

\* ADParser._process_row
ProcessRow_noLocalpart(r0) ==
    LET r == AbstractProcessRow(r0)
    IN  [email |-> r.email,
         aliases |-> SelectSeq(r.aliases, LAMBDA a : a # r.email)]
ProcessRow(row) ==
    LET r == AbstractProcessRow(row)
        a1 == SelectSeq(r.aliases, LAMBDA a : a # r.email)
        a2 == IF Contains(r.email, "@")
              THEN SelectSeq(a1, LAMBDA a : a # Split(r.email, "@")[1])
              ELSE a1
    IN  [email |-> r.email, aliases |-> a2]

\* parse, lines 123-127: the aliases of one entry merged over aliases_attrs
RECURSIVE AppendNew_ci(_, _)
AppendNew_ci(acc, vals) ==
    IF vals = <<>> THEN acc
    ELSE AppendNew_ci(IF Lower(Head(vals)) \in {Lower(a) : a \in Range(acc)}
                      THEN acc ELSE Append(acc, Head(vals)),
                      Tail(vals))
RECURSIVE AppendNew(_, _)
AppendNew(aliases, vals) ==
    IF vals = <<>> THEN aliases
    ELSE AppendNew(IF Head(vals) \in Range(aliases) THEN aliases
                   ELSE Append(aliases, Head(vals)),
                   Tail(vals))

RECURSIVE MergeAliases(_, _, _)
MergeAliases(attrs, keys, aliases) ==
    IF keys = <<>> THEN aliases
    ELSE MergeAliases(attrs, Tail(keys),
                      AppendNew(aliases, Get(attrs, Head(keys), <<>>)))

\* parse, line 130: `if mail:` on the value of the mail attribute (a list,
\* or the default '' when the attribute is absent)
MailPresent(mail) == mail # <<>>

\* parse, line 136
EntryLimitHit_lt(limit, entry_count) == Truthy(limit) /\ limit[1] < entry_count
EntryLimitHit(limit, entry_count) == Truthy(limit) /\ limit[1] <= entry_count

\* parse, lines 120-137: the loop over accounts from index i on
RECURSIVE ParseLoop_countAll(_, _, _, _, _, _, _)
ParseLoop_countAll(accts, i, out, entry_count, lim, mail_attr, attrs) ==
    IF i > Len(accts) THEN out
    ELSE LET e == accts[i]
             m == Get(e.attrs, mail_attr, <<>>)
             r == ProcessRow([email |-> m,
                              aliases |-> MergeAliases(e.attrs, attrs, <<>>)])
         IN  IF e.is_dict /\ MailPresent(m)
             THEN IF EntryLimitHit(lim, entry_count + 1)
                  THEN Append(out, r)
                  ELSE ParseLoop_countAll(accts, i + 1, Append(out, r),
                                          entry_count + 1, lim, mail_attr, attrs)
             ELSE ParseLoop_countAll(accts, i + 1, out, entry_count + 1, lim,
                                     mail_attr, attrs)
RECURSIVE ParseLoop(_, _, _, _, _, _, _)
ParseLoop(accts, i, out, entry_count, limit, mail_attr, aliases_attrs) ==
    IF i > Len(accts) THEN out
    ELSE LET entry == accts[i]
             mail == Get(entry.attrs, mail_attr, <<>>)
             row == ProcessRow([email |-> mail,
                                aliases |-> MergeAliases(entry.attrs,
                                                         aliases_attrs, <<>>)])
         IN  IF entry.is_dict /\ MailPresent(mail)
             THEN IF EntryLimitHit(limit, entry_count + 1)
                  THEN Append(out, row)
                  ELSE ParseLoop(accts, i + 1, Append(out, row),
                                 entry_count + 1, limit, mail_attr,
                                 aliases_attrs)
             ELSE ParseLoop(accts, i + 1, out, entry_count, limit, mail_attr,
                            aliases_attrs)

(***************************************************************************)
(* ADParser.__init__                                                       *)
(***************************************************************************)
\* the default of the port parameter
default_port == 389

\* lines 71-82: the server URLs, '%s://%s:%s' % (proto, dc, port)
LdapServers(dc_list, port, use_ssl) ==
    [i \in 1..Len(dc_list) |->
        <<IF use_ssl THEN "ldaps" ELSE "ldap", "://", dc_list[i], ":", port>>]

\* lines 104-107
AliasesAttrs(aliases_attrs) ==
    IF aliases_attrs = <<>> THEN <<"proxyAddresses">> ELSE aliases_attrs

DcNames == <<"dc1", "dc2", "dc3", "dc4">>

\* the (use_ssl, mail_attr, aliases_attrs) arguments the model constructs
\* the parser with
CtorArgs ==
    { [use_ssl |-> FALSE, mail_attr |-> "mail", aliases_attrs |-> <<>>],
      [use_ssl |-> TRUE, mail_attr |-> "mail",
       aliases_attrs |-> <<"proxyAddresses", "mail", "proxyAddresses">>] }

\* the limit and page_size arguments of parse
Limits == {None} \cup {Some(l) : l \in 0..MaxLimit}
PageSizes == {None, Some(1), Some(2)}
\* and a limit above the default page size, with that page size
ParseArgs ==
    (Limits \X PageSizes) \cup {<<Some(page_size_default + 100), None>>}

(***************************************************************************)
(* Paged-results controls of a response                                    *)
(***************************************************************************)
PagedCtrl(c) == [controlType |-> "CONTROL_PAGEDRESULTS", cookie |-> c]
OtherCtrl == [controlType |-> "other", cookie |-> <<"zz">>]

\* the cookie a server hands out with its k-th page when more pages follow
CookieOf(k) == <<"ck", k>>
EmptyCookie == <<>>

\* serverctrls of a response that ends the paging
FinalCtrls == { <<>>, <<PagedCtrl(EmptyCookie)>>, <<OtherCtrl>> }
\* serverctrls of the k-th response when the server has more pages
MoreCtrls(k) == IF k % 2 = 1 THEN { <<PagedCtrl(CookieOf(k))>> }
                ELSE { <<OtherCtrl, PagedCtrl(CookieOf(k))>> }

\* _get_ldap_data, lines 197-204: the cookie of the first paged-results
\* control of serverctrls, None when there is none
RECURSIVE ExtractCookie(_)
ExtractCookie(serverctrls) ==
    IF serverctrls = <<>> THEN None
    ELSE IF Head(serverctrls).controlType = "CONTROL_PAGEDRESULTS"
         THEN Some(Head(serverctrls).cookie)
         ELSE ExtractCookie(Tail(serverctrls))

\* `if cookie:` on None or a string
CookieTruthy_notNone(c) == c # None
CookieTruthy(c) == c # None /\ c[1] # EmptyCookie

\* _get_ldap_data, line 168: the attrlist of every search_ext call (line 177)
attr_list(mail_attr, aliases_attrs) == <<mail_attr>> \o aliases_attrs

\* _get_ldap_data, line 165
PageSize(page_size) == IF Truthy(page_size) THEN page_size[1] ELSE page_size_default

\* _get_ldap_data, line 211
PageLimitHit_lt(limit, page_size, pages) ==
    Truthy(limit) /\ limit[1] < page_size * pages
PageLimitHit_prev(limit, page_size, pages) ==
    Truthy(limit) /\ limit[1] <= page_size * (pages - 1)
PageLimitHit(limit, page_size, pages) ==
    Truthy(limit) /\ limit[1] <= page_size * pages

\* _ldap_bind, line 252
BindFailed_gt(failed_connections, n) == failed_connections > n
BindFailed(failed_connections, n) == failed_connections = n

(***************************************************************************)
(* State                                                                   *)
(***************************************************************************)
VARIABLES
    caller,            \* "main": __main__ runs get_data; "api": parse is called
    cfg,               \* the fields __init__ sets and nothing changes
    limit, page_size,  \* the arguments of parse
    pc,                \* where the run is
    error,             \* self.error
    ldap_connection,   \* self.ldap_connection, and whether it was assigned
    server_idx, conn_local, failed_connections,   \* locals of _ldap_bind
    binded,            \* parse's local: None until _ldap_bind has returned
    cookie, accounts, pages,                      \* locals of _get_ldap_data
    parsed,            \* the list parse returns
    exc,               \* the exception that ended the run, None if none
    conns,             \* directory side: the state of the connection to each server
    calls,             \* directory side: the calls received, in order
    responses,         \* directory side: the (results, serverctrls) sent, in order
    data, posted, exit_code   \* get_data's return value, __main__

vars == <<caller, cfg, limit, page_size, pc, error, ldap_connection,
          server_idx, conn_local, failed_connections, binded, cookie, accounts, pages,
          parsed, exc, conns, calls, responses, data, posted, exit_code>>

\* A parser used on its own, one raw entry at a time: its construction with a
\* header (AbstractParser.__init__) and the body of parse's loop on the entry
VARIABLES
    np_pc,             \* where that use is; "idle" in a run of the export
    header_arg,        \* the header argument of the constructor, None if none
    header,            \* self.header
    entry,             \* the raw entry
    aliases_attrs,     \* self.aliases_attrs
    aliases, mail,     \* parse's locals, lines 123-128
    row_super,         \* the value of super()._process_row(row), line 217
    row,               \* the record appended to parsed, None if none yet
    ctor_exc           \* the exception the constructor raised, None if none

nvars == <<np_pc, header_arg, header, entry, aliases_attrs, aliases, mail,
           row_super, row, ctor_exc>>

NServers == Len(cfg.ldap_servers)

\* no parser is used on its own
NormalizerIdle ==
    /\ np_pc = "idle"
    /\ header_arg = None
    /\ header = <<>>
    /\ entry = EntryRef
    /\ aliases_attrs = <<>>
    /\ aliases = <<>>
    /\ mail = <<>>
    /\ row_super = None
    /\ row = None
    /\ ctor_exc = None

Init ==
    /\ caller \in {"main", "api"}
    /\ \E n \in 0..MaxServers, a \in CtorArgs :
          cfg = [ldap_servers |-> LdapServers(SubSeq(DcNames, 1, n),
                                              default_port, a.use_ssl),
                 use_ssl |-> a.use_ssl,
                 mail_attr |-> a.mail_attr,
                 aliases_attrs |-> AliasesAttrs(a.aliases_attrs)]
    \* get_data calls parser.parse() with no argument
    /\ \E args \in IF caller = "main" THEN {<<None, None>>} ELSE ParseArgs :
          limit = args[1] /\ page_size = args[2]
    /\ pc = "bind_loop"
    /\ error = None
    /\ ldap_connection = [assigned |-> FALSE, conn |-> None]
    /\ server_idx = 1
    /\ conn_local = None
    /\ failed_connections = 0
    /\ binded = None
    /\ cookie = EmptyCookie
    /\ accounts = <<>>
    /\ pages = 0
    /\ parsed = <<>>
    /\ exc = None
    /\ conns = [i \in 1..NServers |-> "none"]
    /\ calls = <<>>
    /\ responses = <<>>
    /\ data = None
    /\ posted = FALSE
    /\ exit_code = None
    /\ NormalizerIdle

(***************************************************************************)
(* Directory side                                                          *)
(***************************************************************************)
\* the server a connection object talks to, 0 for None
SrvOf(conn) == IF conn = None THEN 0 ELSE conn[1]

\* a call received on the connection to server srv, the state of that
\* connection (for a bind: the state the attempt leaves it in) and the cookie
\* of the request's paged-results control
Call(op, srv, state, c) == [op |-> op, srv |-> srv, state |-> state, cookie |-> c]

\* a call on self.ldap_connection
ConnCall(op, c) ==
    Call(op, SrvOf(ldap_connection.conn), conns[SrvOf(ldap_connection.conn)], c)

\* the except clauses: _set_error_from_ldap_exc(e) raises ValueError out of
\* the handler, or stores the text
Raise(e) == pc' = "raised" /\ exc' = Some(e)

(***************************************************************************)
(* ADParser._ldap_bind                                                     *)
(***************************************************************************)
\* one iteration of the loop of lines 230-250 on server server_idx:
\*   "ok"        simple_bind_s returned: break
\*   "init_fail" LDAPError before ldap_connection is assigned (line 235)
\*   "bind_fail" LDAPError after it (set_option or simple_bind_s)
LdapBindAttempt ==
    /\ pc = "bind_loop"
    /\ server_idx <= NServers
    /\ \E outcome \in {"ok", "init_fail", "bind_fail"} :
        /\ IF outcome = "ok"
           THEN /\ conn_local' = Some(server_idx)
                /\ conns' = [conns EXCEPT ![server_idx] = "bound"]
                /\ pc' = "bind_ret"
                /\ UNCHANGED <<error, failed_connections, server_idx, exc>>
           ELSE /\ conn_local' = IF outcome = "bind_fail" THEN Some(server_idx)
                                 ELSE conn_local
                /\ conns' = [conns EXCEPT ![server_idx] =
                                IF outcome = "bind_fail" THEN "open" ELSE "none"]
                /\ \E payload \in Payloads :
                     IF SetErrorRaises(payload)
                     THEN /\ Raise("ValueError")
                          /\ UNCHANGED <<error, failed_connections, server_idx>>
                     ELSE /\ error' = Some(SetErrorText(payload))
                          /\ failed_connections' = failed_connections + 1
                          /\ server_idx' = server_idx + 1
                          /\ UNCHANGED <<pc, exc>>
        /\ calls' = Append(calls, Call("bind", server_idx,
                                       conns'[server_idx], EmptyCookie))
    /\ UNCHANGED nvars
    /\ UNCHANGED <<caller, cfg, limit, page_size, ldap_connection, binded,
                   cookie, accounts, pages, parsed, responses, data, posted,
                   exit_code>>

\* parse, line 115: where parse goes with the value of _ldap_bind
AfterBind(ok) == IF ok THEN "search_ext" ELSE "returned"

\* lines 252-257 once the loop has ended, and parse's branch on the result
\* (lines 114-116, 165-170)
LdapBindReturn ==
    /\ pc = "bind_ret" \/ (pc = "bind_loop" /\ server_idx > NServers)
    /\ LET ok == ~BindFailed(failed_connections, NServers)
       IN  /\ ldap_connection' =
                 [assigned |-> TRUE, conn |-> IF ok THEN conn_local ELSE None]
           /\ binded' = Some(ok)
           /\ pc' = AfterBind(ok)
    /\ cookie' = EmptyCookie
    /\ accounts' = <<>>
    /\ pages' = 0
    /\ UNCHANGED nvars
    /\ UNCHANGED <<caller, cfg, limit, page_size, error, server_idx, conn_local,
                   failed_connections, parsed, exc, conns, calls, responses,
                   data, posted, exit_code>>

(***************************************************************************)
(* ADParser._get_ldap_data                                                 *)
(***************************************************************************)
\* lines 172-183: search_ext with the control's current cookie
SearchExt ==
    /\ pc = "search_ext"
    /\ IF ldap_connection.conn = None
       THEN \* None has no search_ext
            /\ Raise("AttributeError")
            /\ UNCHANGED <<error, accounts, calls>>
       ELSE /\ calls' = Append(calls, ConnCall("search", cookie) @@
                                   [attrs |-> attr_list(cfg.mail_attr,
                                                        cfg.aliases_attrs)])
            /\ \/ /\ pc' = "result3"
                  /\ UNCHANGED <<error, accounts, exc>>
               \/ \E payload \in Payloads :
                     IF SetErrorRaises(payload)
                     THEN /\ Raise("ValueError")
                          /\ UNCHANGED <<error, accounts>>
                     ELSE /\ error' = Some(SetErrorText(payload))
                          /\ accounts' = <<>>
                          /\ pc' = "unbind"
                          /\ UNCHANGED exc
    /\ UNCHANGED nvars
    /\ UNCHANGED <<caller, cfg, limit, page_size, ldap_connection, server_idx,
                   conn_local, failed_connections, binded, cookie, pages, parsed,
                   conns, responses, data, posted, exit_code>>

\* the server has another page after its k-th only while the paging is
\* bounded: by the limit, or by MaxPages pages
MayHaveMore(k) == Truthy(limit) \/ k < MaxPages

\* lines 185-192: result3 raises
Result3Error ==
    /\ pc = "result3"
    /\ calls' = Append(calls, ConnCall("result", EmptyCookie))
    /\ \E payload \in Payloads :
          IF SetErrorRaises(payload)
          THEN /\ Raise("ValueError")
               /\ UNCHANGED <<error, accounts>>
          ELSE /\ error' = Some(SetErrorText(payload))
               /\ accounts' = <<>>
               /\ pc' = "unbind"
               /\ UNCHANGED exc
    /\ UNCHANGED nvars
    /\ UNCHANGED <<caller, cfg, limit, page_size, ldap_connection, server_idx,
                   conn_local, failed_connections, binded, cookie, pages, parsed,
                   conns, responses, data, posted, exit_code>>

\* lines 185-214: result3 returns (results, serverctrls)
Result3 ==
    /\ pc = "result3"
    /\ calls' = Append(calls, ConnCall("result", EmptyCookie))
    /\ \E results \in ResultPages,
          serverctrls \in FinalCtrls \cup
                          (IF MayHaveMore(pages + 1) THEN MoreCtrls(pages + 1)
                           ELSE {}) :
          LET new_cookie == ExtractCookie(serverctrls)
          IN  /\ accounts' = accounts \o results
              /\ responses' = Append(responses, [results |-> results,
                                                 serverctrls |-> serverctrls])
              /\ cookie' = IF CookieTruthy(new_cookie) THEN new_cookie[1]
                           ELSE cookie
              /\ pages' = pages + 1
              /\ pc' = IF ~CookieTruthy(new_cookie) THEN "unbind"
                       ELSE IF PageLimitHit(limit, PageSize(page_size), pages + 1)
                            THEN "unbind"
                       ELSE "search_ext"
    /\ UNCHANGED nvars
    /\ UNCHANGED <<caller, cfg, limit, page_size, error, ldap_connection,
                   server_idx, conn_local, failed_connections, binded, parsed, exc,
                   conns, data, posted, exit_code>>

(***************************************************************************)
(* ADParser.parse after the query, get_data, __main__                      *)
(***************************************************************************)
\* line 118 and _ldap_unbind
LdapUnbind ==
    /\ pc = "unbind"
    /\ calls' = Append(calls, ConnCall("unbind", EmptyCookie))
    /\ conns' = [conns EXCEPT ![SrvOf(ldap_connection.conn)] = "closed"]
    /\ pc' = "entries"
    /\ UNCHANGED nvars
    /\ UNCHANGED <<caller, cfg, limit, page_size, error, ldap_connection,
                   server_idx, conn_local, failed_connections, binded, cookie, accounts,
                   pages, parsed, exc, responses, data, posted, exit_code>>

\* lines 120-139: the loop over the entries, and the return
ParseEntries ==
    /\ pc = "entries"
    /\ parsed' = ParseLoop(accounts, 1, <<>>, 0, limit, cfg.mail_attr,
                           cfg.aliases_attrs)
    /\ pc' = "returned"
    /\ UNCHANGED nvars
    /\ UNCHANGED <<caller, cfg, limit, page_size, error, ldap_connection,
                   server_idx, conn_local, failed_connections, binded, cookie, accounts,
                   pages, exc, conns, calls, responses, data, posted, exit_code>>

\* get_data, lines 272-285: the JSON text (here the list it encodes) or None
GetData ==
    /\ pc = "returned"
    /\ caller = "main"
    /\ data' = IF parsed # <<>> THEN Some(parsed) ELSE None
    /\ pc' = "main"
    /\ UNCHANGED nvars
    /\ UNCHANGED <<caller, cfg, limit, page_size, error, ldap_connection,
                   server_idx, conn_local, failed_connections, binded, cookie, accounts,
                   pages, parsed, exc, conns, calls, responses, posted, exit_code>>

\* __main__, lines 356-377: post_data when there is data; an HTTPError exits 1
Main ==
    /\ pc = "main"
    /\ pc' = "exit"
    /\ IF data # None
       THEN /\ posted' = TRUE
            /\ \E http \in {"ok", "429", "other"} :
                 exit_code' = IF http = "ok" THEN Some(0) ELSE Some(1)
       ELSE /\ posted' = FALSE
            /\ exit_code' = Some(0)
    /\ UNCHANGED nvars
    /\ UNCHANGED <<caller, cfg, limit, page_size, error, ldap_connection,
                   server_idx, conn_local, failed_connections, binded, cookie, accounts,
                   pages, parsed, exc, conns, calls, responses, data>>

Next ==
    \/ LdapBindAttempt
    \/ LdapBindReturn
    \/ SearchExt
    \/ Result3Error
    \/ Result3
    \/ LdapUnbind
    \/ ParseEntries
    \/ GetData
    \/ Main

Spec == Init /\ [][Next]_<<vars, nvars>>

(***************************************************************************)
(* A parser on its own: AbstractParser.__init__ / _check_header, and the   *)
(* body of parse's loop (lines 122-133) on one raw entry.  The header and  *)
(* the entry are drawn from all the values within the bounds.              *)
(***************************************************************************)
\* ADParser.header
class_header == <<"email", "aliases">>

\* the number of occurrences of x in h (collections.Counter)
Count(h, x) == Cardinality({i \in 1..Len(h) : h[i] = x})

\* AbstractParser._check_header, lines 34-36: `duplicates` is not empty
HeaderDuplicates_gt2(h) == \E x \in Range(h) : Count(h, x) > 2
HeaderDuplicates(h) == \E x \in Range(h) : Count(h, x) > 1

\* the tokens raw address values are made of
Tokens == {"smtp:", "SMTP:", "x400:", "X400:", " ", "@", "a"}

\* the strings of at most n tokens
Strs(n) == UNION {[1..k -> Tokens] : k \in 0..n}

\* the values of an alias attribute: one address of up to MaxAliasLen tokens,
\* or two shorter ones
AliasLists ==
    {<<>>} \cup {<<v>> : v \in Strs(MaxAliasLen)}
           \cup {<<v, w>> : v \in Strs(MaxAliasLen - 2), w \in Strs(MaxAliasLen - 2)}

\* the values of the mail attribute, None when the entry has none
MailLists == {None, Some(<< <<>> >>), Some(<< <<"a">> >>),
              Some(<< <<"A", "@", "a">>, <<"a">> >>)}

\* the values of a second alias attribute, None when the entry has none
OtherLists == {None, Some(<< <<"SMTP:", "a">>, <<"a">> >>)}

\* the attribute dictionary of an entry
AttrsOf(m, p, o) ==
    [k \in {"proxyAddresses"} \cup (IF m = None THEN {} ELSE {"mail"})
                              \cup (IF o = None THEN {} ELSE {"otherMailbox"}) |->
        CASE k = "mail" -> m[1]
          [] k = "otherMailbox" -> o[1]
          [] OTHER -> p]

RawEntries ==
    {EntryRef} \cup
    {[is_dict |-> TRUE, attrs |-> AttrsOf(m, p, o)] :
        m \in MailLists, p \in AliasLists, o \in OtherLists}

\* the aliases_attrs arguments of the constructor
AliasesAttrsArgs ==
    {<<>>, <<"otherMailbox", "proxyAddresses">>,
     <<"proxyAddresses", "mail", "proxyAddresses">>}

\* the header arguments of the constructor
HeaderArgs ==
    {None} \cup {Some(h) : h \in UNION {[1..k -> {"email", "aliases"}] :
                                         k \in 0..MaxHeader}}

\* everything of a run of the export, at rest
ExportIdle ==
    /\ caller = "api"
    /\ cfg = [ldap_servers |-> <<>>, use_ssl |-> FALSE, mail_attr |-> "mail",
              aliases_attrs |-> <<>>]
    /\ limit = None
    /\ page_size = None
    /\ pc = "idle"
    /\ error = None
    /\ ldap_connection = [assigned |-> FALSE, conn |-> None]
    /\ server_idx = 1
    /\ conn_local = None
    /\ failed_connections = 0
    /\ binded = None
    /\ cookie = EmptyCookie
    /\ accounts = <<>>
    /\ pages = 0
    /\ parsed = <<>>
    /\ exc = None
    /\ conns = <<>>
    /\ calls = <<>>
    /\ responses = <<>>
    /\ data = None
    /\ posted = FALSE
    /\ exit_code = None

NormalizerInit ==
    /\ ExportIdle
    /\ np_pc = "new"
    /\ header_arg \in HeaderArgs
    \* every entry with the class header, one entry with the other headers
    /\ entry \in IF header_arg = None THEN RawEntries ELSE {EntryAlice}
    /\ \E a \in AliasesAttrsArgs : aliases_attrs = AliasesAttrs(a)
    /\ header = class_header
    /\ aliases = <<>>
    /\ mail = <<>>
    /\ row_super = None
    /\ row = None
    /\ ctor_exc = None

\* AbstractParser.__init__, lines 18-21, with _check_header
Construct ==
    /\ np_pc = "new"
    /\ header' = IF header_arg = None THEN header ELSE header_arg[1]
    /\ IF HeaderDuplicates(header')
       THEN /\ ctor_exc' = Some("ValueError")
            /\ np_pc' = "ctor_raised"
       ELSE /\ ctor_exc' = None
            /\ np_pc' = "entry"
    /\ UNCHANGED <<header_arg, entry, aliases_attrs, aliases, mail, row_super, row>>
    /\ UNCHANGED vars

\* parse, lines 122-128
MergeEntry ==
    /\ np_pc = "entry"
    /\ IF entry.is_dict
       THEN /\ aliases' = MergeAliases(entry.attrs, aliases_attrs, <<>>)
            /\ mail' = Get(entry.attrs, cfg.mail_attr, <<>>)
            /\ np_pc' = "mail"
       ELSE /\ np_pc' = "skipped"
            /\ UNCHANGED <<aliases, mail>>
    /\ UNCHANGED <<header_arg, header, entry, aliases_attrs, row_super, row, ctor_exc>>
    /\ UNCHANGED vars

\* parse, lines 130-131, and the call of super()._process_row, line 217
SuperProcessRow ==
    /\ np_pc = "mail"
    /\ IF MailPresent(mail)
       THEN /\ row_super' = Some(AbstractProcessRow([email |-> mail,
                                                     aliases |-> aliases]))
            /\ np_pc' = "row"
       ELSE /\ np_pc' = "skipped"
            /\ UNCHANGED row_super
    /\ UNCHANGED <<header_arg, header, entry, aliases_attrs, aliases, mail, row, ctor_exc>>
    /\ UNCHANGED vars

\* ADParser._process_row, lines 218-225, and parse, line 133
EmitRow ==
    /\ np_pc = "row"
    /\ row' = Some(ProcessRow([email |-> mail, aliases |-> aliases]))
    /\ np_pc' = "emitted"
    /\ UNCHANGED <<header_arg, header, entry, aliases_attrs, aliases, mail,
                   row_super, ctor_exc>>
    /\ UNCHANGED vars

NormalizerNext ==
    \/ Construct
    \/ MergeEntry
    \/ SuperProcessRow
    \/ EmitRow

SpecNormalizer == NormalizerInit /\ [][NormalizerNext]_<<vars, nvars>>

(***************************************************************************)
(* Vocabulary of the properties                                            *)
(***************************************************************************)
CallsOf(op) == SelectSeq(calls, LAMBDA c : c.op = op)
NCalls(op) == Len(CallsOf(op))
BindCalls == CallsOf("bind")

\* parse has returned to its caller
Returned == pc \in {"returned", "main", "exit"}
\* _get_ldap_data is over and parse goes on
FetchOver == binded = Some(TRUE) /\ pc \in {"unbind", "entries"} \cup {"returned", "main", "exit"}

\* a search_ext call, or a result3 call, has raised an LDAPError
SearchFailed == NCalls("search") > NCalls("result") /\ pc # "result3"
ResultFailed == NCalls("result") > Len(responses)
FetchFailed == SearchFailed \/ ResultFailed

\* the entries of all the responses, in order
RECURSIVE ConcatResults(_)
ConcatResults(rs) ==
    IF rs = <<>> THEN <<>> ELSE Head(rs).results \o ConcatResults(Tail(rs))

\* the cursor of response k, as the paging protocol defines it
CursorOf(k) == ExtractCookie(responses[k].serverctrls)

\* an entry for which a record is due: an attribute dictionary whose mail
\* attribute is present with at least one value
Emittable(e) ==
    /\ e.is_dict
    /\ cfg.mail_attr \in DOMAIN e.attrs
    /\ e.attrs[cfg.mail_attr] # <<>>

RecordOf(e) ==
    ProcessRow([email |-> e.attrs[cfg.mail_attr],
                aliases |-> MergeAliases(e.attrs, cfg.aliases_attrs, <<>>)])

Min(a, b) == IF a < b THEN a ELSE b

C2_FailedFetchReturnsEmpty ==
    FetchFailed =>
        /\ exc = None
        /\ FetchOver
        /\ accounts = <<>>

(***************************************************************************)
(* C3: whatever the text of a directory error, the run never ends in an    *)
(* exception: the error is swallowed.                                      *)
(***************************************************************************)
C3_DirectoryErrorsSwallowed == exc = None

(***************************************************************************)
(* C4: _ldap_bind tries the servers in list order; the first success ends  *)
(* the loop, bind returns true and self.ldap_connection is the connection  *)
(* to that server; every server that failed had its error recorded and the *)
(* loop went on past it.                                                   *)
(***************************************************************************)
C4_BindInOrderFirstSuccess ==
    /\ \A k \in 1..Len(BindCalls) :
          /\ BindCalls[k].srv = k
          /\ BindCalls[k].state = "bound" => k = Len(BindCalls)
          /\ BindCalls[k].state # "bound" => (error # None /\ server_idx > k)
    /\ \A k \in 1..Len(BindCalls) :
          (BindCalls[k].state = "bound" /\ binded # None) =>
              (binded = Some(TRUE) /\ ldap_connection.conn = Some(k))

(***************************************************************************)
(* C5: once the bind is over, it has returned false with                   *)
(* self.ldap_connection None exactly when no server accepted the bind; an  *)
(* empty server list gives false with no attempt.                          *)
(***************************************************************************)
C5_BindFalseIffNoServerAccepts ==
    pc \notin {"bind_loop", "bind_ret"} =>
        /\ (\A k \in 1..Len(BindCalls) : BindCalls[k].state # "bound")
              <=> (binded = Some(FALSE)
                   /\ ldap_connection = [assigned |-> TRUE, conn |-> None])
        /\ NServers = 0 => (BindCalls = <<>> /\ binded = Some(FALSE))

(***************************************************************************)
(* C6: every search_ext and result3 call is made on a connection that is   *)
(* bound at that moment: a bind on it succeeded earlier in the run and no  *)
(* unbind came before the call.                                            *)
(***************************************************************************)
C6_QueryOnlyWhileBound ==
    \A i \in 1..Len(calls) :
        calls[i].op \in {"search", "result"} =>
            /\ calls[i].state = "bound"
            /\ \E j \in 1..(i - 1) :
                  /\ calls[j].op = "bind"
                  /\ calls[j].state = "bound"
                  /\ calls[j].srv = calls[i].srv
            /\ \A j \in 1..(i - 1) : calls[j].op # "unbind"

C6_Witness ==
    /\ pc = "returned"
    /\ Len(BindCalls) >= 2
    /\ NCalls("search") >= 2
    /\ NCalls("unbind") = 1
    /\ calls[Len(calls)].op = "unbind"

(***************************************************************************)
(* C7: a run in which the bind succeeded ends (by return or by exception)  *)
(* with exactly one unbind made and no connection left bound, and no       *)
(* record is built before that unbind.                                     *)
(***************************************************************************)
C7_BoundSessionAlwaysReleased ==
    /\ (pc \in {"entries", "returned", "main", "exit", "raised"}
        /\ \E k \in 1..Len(BindCalls) : BindCalls[k].state = "bound") =>
            /\ NCalls("unbind") = 1
            /\ \A i \in 1..NServers : conns[i] # "bound"
    /\ NCalls("unbind") = 0 => parsed = <<>>

(***************************************************************************)
(* C8: when every server of a non-empty list has rejected the bind, the    *)
(* run raises nothing, returns the empty list, issues no search, posts     *)
(* nothing, and self.error holds the text of the last failure.             *)
(***************************************************************************)
C8_BindFailureYieldsEmptyExport ==
    (/\ NServers >= 1
     /\ Len(BindCalls) = NServers
     /\ \A k \in 1..NServers : BindCalls[k].state # "bound") =>
        /\ exc = None
        /\ error # None
        /\ NCalls("search") = 0
        /\ parsed = <<>>
        /\ ~posted
        /\ pc = "main" => data = None

(***************************************************************************)
(* C9 (as amended): for every limit >= 1, parse returns the records of the *)
(* first `limit` emittable entries of the fetched list, in order (all of   *)
(* them when there are fewer), so never more than `limit` records, however *)
(* many raw entries the query returned.                                    *)
(***************************************************************************)
C9_ExactCutoffAtLimit ==
    (Returned /\ binded = Some(TRUE) /\ limit # None /\ limit[1] >= 1) =>
        LET em == SelectSeq(accounts, Emittable)
            n == Min(limit[1], Len(em))
        IN  /\ Len(parsed) <= limit[1]
            /\ parsed = [i \in 1..n |-> RecordOf(em[i])]

\* C9 as stated: for every supplied limit, 0 included
C9_ExactCutoffEveryLimit ==
    (Returned /\ binded = Some(TRUE) /\ limit # None) =>
        LET em == SelectSeq(accounts, Emittable)
            n == Min(limit[1], Len(em))
        IN  /\ Len(parsed) <= limit[1]
            /\ parsed = [i \in 1..n |-> RecordOf(em[i])]

C9_Witness ==
    /\ pc = "returned"
    /\ limit = Some(2)
    /\ Len(accounts) > 3
    /\ Len(SelectSeq(accounts, Emittable)) > 2
    /\ Len(parsed) = 2

(***************************************************************************)
(* C10: no record that parse returns has the empty string as its email.    *)
(***************************************************************************)
C10_NoEmptyEmail ==
    \A i \in 1..Len(parsed) : parsed[i].email # <<>>

(***************************************************************************)
(* Vocabulary of the properties of the records                             *)
(***************************************************************************)
NoRepeat(q) == \A i, j \in 1..Len(q) : q[i] = q[j] => i = j

\* the part of an email before its first "@"
LocalPart(email) == SubSeq(email, 1, FindFrom(email, "@", 1) - 1)

\* the reference of C13 for one value: None when it is dropped
RefAlias(v) ==
    LET l == Lower(v)
        k == FindFrom(l, "smtp:", 1)
    IN  IF Contains(l, "x400:") \/ Contains(l, " ") THEN None
        ELSE IF k > 0 THEN Some(SubSeq(l, k + 1, Len(l)))
        ELSE Some(l)

RECURSIVE RefPrepareAliases(_)
RefPrepareAliases(val) ==
    IF val = <<>> THEN <<>>
    ELSE RefAlias(Head(val)) \o RefPrepareAliases(Tail(val))

\* the values of the attributes keys, concatenated in that order
RECURSIVE AllValues(_, _)
AllValues(attrs, keys) ==
    IF keys = <<>> THEN <<>>
    ELSE Get(attrs, Head(keys), <<>>) \o AllValues(attrs, Tail(keys))

\* q without every element that equals an earlier one
RECURSIVE FirstOccurrences(_, _)
FirstOccurrences(q, i) ==
    IF i > Len(q) THEN <<>>
    ELSE (IF \E j \in 1..(i - 1) : q[j] = q[i] THEN <<>> ELSE <<q[i]>>)
         \o FirstOccurrences(q, i + 1)

Ceil(a, b) == (a + b - 1) \div b

(***************************************************************************)
(* C11: in every record, aliases holds neither the email nor, when the     *)
(* email has an "@", the part before its first "@"; the email is the       *)
(* lowercased first mail value and the aliases are lowercased, so a raw    *)
(* alias that differs from it only in case is removed too.                 *)
(***************************************************************************)
C11_AliasesExcludeEmail ==
    row # None =>
        /\ row[1].email = Lower(mail[1])
        /\ row[1].email \notin Range(row[1].aliases)
        /\ Contains(row[1].email, "@") =>
              LocalPart(row[1].email) \notin Range(row[1].aliases)
        /\ \A v \in Range(aliases) :
              Lower(v) = Lower(mail[1]) => Lower(v) \notin Range(row[1].aliases)

C11_Witness ==
    /\ np_pc = "emitted"
    /\ mail[1] = <<"A", "@", "a">>
    /\ <<"a", "@", "a">> \in Range(aliases)
    /\ <<"a">> \in Range(aliases)
    /\ row[1] = [email |-> <<"a", "@", "a">>, aliases |-> <<>>]

(***************************************************************************)
(* C12: in every record, the aliases are all lowercase and none occurs     *)
(* twice.                                                                  *)
(***************************************************************************)
C12_AliasesOrderedSet ==
    row # None =>
        /\ \A a \in Range(row[1].aliases) : Lower(a) = a
        /\ NoRepeat(row[1].aliases)

(***************************************************************************)
(* C13: prepare_aliases gives, for every list of values, the reference:    *)
(* values with "x400:" or a space dropped, the others lowercased, and cut  *)
(* to all that follows the first "smtp:" when they hold one.               *)
(***************************************************************************)
C13_PrepareAliasesIsReference ==
    row_super # None => row_super[1].aliases = RefPrepareAliases(aliases)

(***************************************************************************)
(* C14: parse builds records only from entries that are attribute          *)
(* dictionaries with a present, non-empty mail attribute; the other        *)
(* entries give no record and are not counted against the limit.           *)
(***************************************************************************)
C14_OnlyEmittableEntriesEmit ==
    (Returned /\ binded = Some(TRUE)) =>
        LET em == SelectSeq(accounts, Emittable)
        IN  /\ \A i \in 1..Len(parsed) :
                  \E k \in 1..Len(accounts) :
                      Emittable(accounts[k]) /\ parsed[i] = RecordOf(accounts[k])
            /\ Len(parsed) = IF Truthy(limit) THEN Min(limit[1], Len(em))
                             ELSE Len(em)

C14_Witness ==
    /\ pc = "returned"
    /\ limit = Some(2)
    /\ Len(accounts) > 3
    /\ accounts[1] = EntryRef
    /\ accounts[2] = EntryNoMail
    /\ Len(parsed) = 2

(***************************************************************************)
(* C15: a constructor given a header that repeats a field name raises      *)
(* ValueError; the parser never comes to exist, so no entry is merged or   *)
(* normalised by it and no directory call is made.                         *)
(***************************************************************************)
C15_DuplicateHeaderRaisesAtConstruction ==
    (header_arg # None /\ ~NoRepeat(header_arg[1])) =>
        /\ np_pc \in {"new", "ctor_raised"}
        /\ np_pc = "ctor_raised" => ctor_exc = Some("ValueError")
        /\ row_super = None /\ row = None
        /\ calls = <<>>

C15_Witness ==
    /\ header_arg = Some(<<"email", "email">>)
    /\ np_pc = "ctor_raised"
    /\ ctor_exc = Some("ValueError")

(***************************************************************************)
(* C16: with a limit >= 1, when no response holds more than page_size      *)
(* entries, _get_ldap_data returns at most limit + page_size - 1 entries.  *)
(***************************************************************************)
C16_OvershootBelowOnePage ==
    (/\ FetchOver
     /\ limit # None /\ limit[1] >= 1
     /\ \A k \in 1..Len(responses) :
           Len(responses[k].results) <= PageSize(page_size)) =>
        Len(accounts) <= limit[1] + PageSize(page_size) - 1

C16_Witness ==
    /\ pc = "unbind"
    /\ limit = Some(3)
    /\ page_size = Some(2)
    /\ \A k \in 1..Len(responses) : Len(responses[k].results) <= 2
    /\ Len(accounts) = 4

(***************************************************************************)
(* C17: the first search request carries the empty cookie, every later one *)
(* the cookie of the paged-results control of the response just before it, *)
(* which is not empty; so no request follows a response with an empty      *)
(* cookie or without that control.                                         *)
(***************************************************************************)
C17_CookieThreading ==
    LET sc == CallsOf("search")
    IN  \A k \in 1..Len(sc) :
            IF k = 1 THEN sc[k].cookie = EmptyCookie
            ELSE /\ k - 1 <= Len(responses)
                 /\ CursorOf(k - 1) # None
                 /\ CursorOf(k - 1)[1] # EmptyCookie
                 /\ sc[k].cookie = CursorOf(k - 1)[1]

C17_Witness ==
    /\ pc = "returned"
    /\ NCalls("search") = 3
    /\ Len(responses) = 3
    /\ CallsOf("search")[3].cookie = CookieOf(2)
    /\ CursorOf(3) = None

(***************************************************************************)
(* C18: the alias list parse hands to _process_row is the values of the    *)
(* alias attributes, concatenated in the order of aliases_attrs, without   *)
(* every value equal (case-sensitively) to an earlier one.                 *)
(***************************************************************************)
C18_MergeKeepsFirstOccurrences ==
    (entry.is_dict /\ np_pc \in {"mail", "row", "emitted", "skipped"}) =>
        aliases = FirstOccurrences(AllValues(entry.attrs, aliases_attrs), 1)

C18_Witness ==
    /\ np_pc = "mail"
    /\ aliases_attrs = <<"proxyAddresses", "mail", "proxyAddresses">>
    /\ entry.attrs["proxyAddresses"] = << <<"smtp:">>, <<"SMTP:">> >>
    /\ aliases = << <<"smtp:">>, <<"SMTP:">>, <<"a">> >>

(***************************************************************************)
(* C19: the attribute list of every search request names no attribute     *)
(* twice.                                                                  *)
(***************************************************************************)
C19_AttrListHasNoRepeat ==
    \A k \in 1..NCalls("search") :
        /\ Range(CallsOf("search")[k].attrs) =
              {cfg.mail_attr} \cup Range(cfg.aliases_attrs)
        /\ NoRepeat(CallsOf("search")[k].attrs)

(***************************************************************************)
(* C20: with a limit >= 1, _get_ldap_data makes at most                    *)
(* ceil(limit / page_size) search requests, whatever cookies come back;    *)
(* without a limit the loop ends, short of an error, only on a response    *)
(* with no cookie.                                                         *)
(***************************************************************************)
C20_RequestsBoundedByLimit ==
    /\ (limit # None /\ limit[1] >= 1) =>
          NCalls("search") <= Ceil(limit[1], PageSize(page_size))
    /\ (~Truthy(limit) /\ FetchOver /\ ~FetchFailed) =>
          ~CookieTruthy(CursorOf(pages))

C20_Witness ==
    /\ pc = "unbind"
    /\ limit = Some(3)
    /\ page_size = Some(1)
    /\ NCalls("search") = 3
    /\ Len(responses) = 3
    /\ CookieTruthy(CursorOf(3))

=============================================================================
